---- MODULE Spec2Model ----
(***************************************************************************)
(* Model of the e-commerce behaviour dashboard: the event table produced   *)
(* by src/data_loader.py, the aggregations of src/analytics.py and the     *)
(* load -> filter -> aggregate -> render run of app.py.                     *)
(*                                                                         *)
(* A DataFrame is a sequence of rows, a row is a function from column      *)
(* names to values.  A missing string is NA, a missing float is NaN.  A    *)
(* float that is the quotient of two counts is kept as the reduced         *)
(* fraction <<num, den>>; <<0, 0>> is nan/NA and <<1, 0>> is inf.           *)
(***************************************************************************)
EXTENDS Integers, Sequences, FiniteSets, TLC

VARIABLES
    df,        \* the loaded table: main's df, the argument of the analytics calls
    op,        \* name of the last analytics function called on its own
    out,       \* DataFrame / dict returned by that call
    before,    \* funnel_by_session result held when a duplicate event was added
    pc,        \* where the script run of main() is
    csv,       \* the rows of data/sample_ecommerce.csv
    file_exists,  \* DATA_PATH.exists()
    cache,     \* st.cache_data entry of get_data: <<>> or <<table>>
    reads,     \* number of pd.read_csv calls of the process
    widgets,   \* the sidebar inputs of this run
    filtered,  \* main's filtered
    filtered_heavy,  \* main's filtered_heavy: its rows, and whether it is the object filtered
    trace,     \* the calls of this run, in order, each with the table it got
    page,      \* what this run has put on the page: <<label, value>>
    limits,    \* the row limits of the build: TARGET_ROWS and MAX_ROWS_DETAILED
    prep,      \* preprocess_sample.py: the files and the locals of main()
    shrink     \* shrink_sample.py: the files and the locals of main()

anVars == <<df, op, out, before>>
scriptVars == <<limits, prep, shrink>>
dashVars == <<pc, csv, file_exists, cache, reads, widgets, filtered, filtered_heavy, trace, page>>
appVars == <<dashVars, scriptVars>>
vars == <<df, op, out, before, pc, csv, file_exists, cache, reads, widgets,
          filtered, filtered_heavy, trace, page, limits, prep, shrink>>

----------------------------------------------------------------------------
(* Bounds *)

MaxRows == 3
MaxFileRows == 2
MaxScaledRows == 3
MaxChunks == 22
MaxShrinkChunks == 3

----------------------------------------------------------------------------
(* The row limits of the dashboard *)

\* data_loader.py: hard cap for dashboard rows (tune this for speed vs. detail)
TARGET_ROWS == 50000

\* main: the size over which fast mode samples the table of the heavy tabs
MAX_ROWS_DETAILED == 300000

\* the limits the repository is built with
BuildLimits == [target_rows |-> TARGET_ROWS, max_rows_detailed |-> MAX_ROWS_DETAILED]

----------------------------------------------------------------------------
(* Values *)

NA == "<NA>"
NaN == -1
HoursPerDay == 24

EventTypes == {"view", "cart", "purchase"}

\* The attribute combinations an event of the sample can carry.
Attrs ==
    << [category_code |-> "c1", brand |-> "b1", price |-> 10,  event_time |-> 0,  user_id |-> 1],
       [category_code |-> "c2", brand |-> NA,   price |-> 60,  event_time |-> 49, user_id |-> 2],
       [category_code |-> NA,   brand |-> "b1", price |-> NaN, event_time |-> 1,  user_id |-> 1] >>

----------------------------------------------------------------------------
(* Floats that are quotients of counts *)

RECURSIVE GCD(_, _)
GCD(a, b) == IF b = 0 THEN a ELSE GCD(b, a % b)

Zero == <<0, 1>>
NARate == <<0, 0>>
Inf == <<1, 0>>

\* a / b on floats: nan for 0/0, inf for x/0
Ratio(a, b) ==
    IF b = 0 THEN (IF a = 0 THEN NARate ELSE Inf)
    ELSE LET g == GCD(a, b) IN <<a \div g, b \div g>>

\* 0 <= r <= 1 for a finite float r
InUnitInterval(r) == r[2] > 0 /\ 0 <= r[1] /\ r[1] <= r[2]

----------------------------------------------------------------------------
(* DataFrame primitives *)

Range(s) == {s[i] : i \in DOMAIN s}

\* df[mask]: the rows whose index is in mask, in order
Filter(t, mask) ==
    LET F[i \in 0..Len(t)] ==
            IF i = 0 THEN <<>>
            ELSE IF i \in mask THEN Append(F[i - 1], t[i]) ELSE F[i - 1]
    IN F[Len(t)]

\* df[df[col] == v]
Loc(t, col, v) == Filter(t, {i \in DOMAIN t : t[i][col] = v})

\* df[[c1, c2, ...]]
Project(t, cols) == [i \in DOMAIN t |-> [c \in cols |-> t[i][c]]]

\* df[col] as a sequence of values
Column(t, col) == [i \in DOMAIN t |-> t[i][col]]

\* DataFrame.drop_duplicates(): keep the first of equal rows (NA equals NA)
drop_duplicates(t) ==
    Filter(t, {i \in DOMAIN t : \A j \in 1..(i - 1) : t[j] # t[i]})

\* Series.nunique(): distinct values, missing ones not counted
nunique(s) == Cardinality(Range(s) \ {NA})

\* Series.sum() of a float column: NaN is skipped
RECURSIVE sum(_)
sum(s) ==
    IF Len(s) = 0 THEN 0
    ELSE (IF Head(s) = NaN THEN 0 ELSE Head(s)) + sum(Tail(s))

----------------------------------------------------------------------------
(* src/data_loader.py: the columns load_data derives *)

event_date(time) == time \div HoursPerDay
hour(time) == time % HoursPerDay

\* one line of the file as pd.read_csv returns it
CsvRow(s, e, a) ==
    [event_time    |-> a.event_time,
     event_type    |-> e,
     category_code |-> a.category_code,
     brand         |-> a.brand,
     price         |-> a.price,
     user_id       |-> a.user_id,
     user_session  |-> s]

\* the casts of load_data and the event_date column it adds
derive_columns(t) ==
    [i \in DOMAIN t |->
        ("event_date" :> event_date(t[i].event_time))
        @@ [t[i] EXCEPT !.user_id = ToString(@)]]

\* The lines a file is made of, in a fixed order
CsvRows ==
    LET ss == <<"s1", "s2", NA>>
        es == <<"view", "cart", "purchase">>
    IN [k \in 1..27 |->
            CsvRow(ss[((k - 1) \div 9) + 1],
                   es[(((k - 1) \div 3) % 3) + 1],
                   Attrs[((k - 1) % 3) + 1])]

\* The rows a loaded table is made of
Rows == derive_columns(CsvRows)

Event(s, e, a) == derive_columns(<<CsvRow(s, e, a)>>)[1]

RowIndex(r) == CHOOSE k \in DOMAIN Rows : Rows[k] = r

\* A table holds its rows in the order of Rows: one representative per
\* multiset of rows
Ordered(t) == \A n \in 1..(Len(t) - 1) : RowIndex(t[n]) <= RowIndex(t[n + 1])

----------------------------------------------------------------------------
(* src/analytics.py: KPIs *)

\* conversion counts purchase events instead of distinct purchase sessions
compute_kpis_count_events(t) ==
    LET purchases == Loc(t, "event_type", "purchase")
        total_sessions == nunique(Column(t, "user_session"))
    IN [total_users     |-> nunique(Column(t, "user_id")),
        total_sessions  |-> total_sessions,
        total_revenue   |-> sum(Column(purchases, "price")),
        conversion_rate |-> IF total_sessions > 0
                            THEN Ratio(Len(purchases), total_sessions) ELSE Zero,
        avg_order_value |-> Zero]

\* revenue summed over every event instead of the purchase events
compute_kpis_all_events(t) ==
    LET purchases == Loc(t, "event_type", "purchase")
        total_sessions == nunique(Column(t, "user_session"))
    IN [total_users     |-> nunique(Column(t, "user_id")),
        total_sessions  |-> total_sessions,
        total_revenue   |-> sum(Column(t, "price")),
        conversion_rate |-> IF total_sessions > 0
                            THEN Ratio(nunique(Column(purchases, "user_session")),
                                       total_sessions)
                            ELSE Zero,
        avg_order_value |-> Zero]

compute_kpis(t) ==
    LET total_users == nunique(Column(t, "user_id"))
        total_sessions == nunique(Column(t, "user_session"))
        purchases == Loc(t, "event_type", "purchase")
        total_revenue == sum(Column(purchases, "price"))
        conversion_rate ==
            IF total_sessions > 0
            THEN Ratio(nunique(Column(purchases, "user_session")), total_sessions)
            ELSE Zero
        \* groupby("user_session") drops the rows whose key is missing
        orders == Range(Column(purchases, "user_session")) \ {NA}
        keyed == Filter(purchases, {i \in DOMAIN purchases : purchases[i].user_session # NA})
        avg_order_value ==
            IF Len(purchases) # 0
            THEN Ratio(sum(Column(keyed, "price")), Cardinality(orders))
            ELSE Zero
    IN [total_users     |-> total_users,
        total_sessions  |-> total_sessions,
        total_revenue   |-> total_revenue,
        conversion_rate |-> conversion_rate,
        avg_order_value |-> avg_order_value]

----------------------------------------------------------------------------
(* src/analytics.py: session funnel *)

FunnelRow(v, c, p, vc, cp) ==
    << [sessions_with_view     |-> v,
        sessions_with_cart     |-> c,
        sessions_with_purchase |-> p,
        view_to_cart_rate      |-> vc,
        cart_to_purchase_rate  |-> cp] >>

SessionsOf(t, e) == {t[i].user_session : i \in {j \in DOMAIN t : t[j].event_type = e}} \ {NA}

\* a strict funnel: a cart counts only after a view, a purchase only after a cart
funnel_by_session_strict(t) ==
    LET v == SessionsOf(t, "view")
        c == SessionsOf(t, "cart") \cap v
        p == SessionsOf(t, "purchase") \cap c
    IN FunnelRow(Cardinality(v), Cardinality(c), Cardinality(p),
                 IF v # {} THEN Ratio(Cardinality(c), Cardinality(v)) ELSE Zero,
                 IF c # {} THEN Ratio(Cardinality(p), Cardinality(c)) ELSE Zero)

\* the step rates taken the wrong way round
funnel_by_session_inverted(t) ==
    LET v == Cardinality(SessionsOf(t, "view"))
        c == Cardinality(SessionsOf(t, "cart"))
        p == Cardinality(SessionsOf(t, "purchase"))
    IN FunnelRow(v, c, p,
                 IF v # 0 THEN Ratio(v, c) ELSE Zero,
                 IF c # 0 THEN Ratio(c, p) ELSE Zero)

\* events counted instead of distinct sessions
funnel_by_session_events(t) ==
    LET v == Len(Loc(t, "event_type", "view"))
        c == Len(Loc(t, "event_type", "cart"))
        p == Len(Loc(t, "event_type", "purchase"))
    IN FunnelRow(v, c, p,
                 IF v # 0 THEN Ratio(c, v) ELSE Zero,
                 IF c # 0 THEN Ratio(p, c) ELSE Zero)

funnel_by_session(t) ==
    IF Len(t) = 0
    THEN << [sessions_with_view     |-> 0,
             sessions_with_cart     |-> 0,
             sessions_with_purchase |-> 0,
             view_to_cart_rate      |-> Zero,
             cart_to_purchase_rate  |-> Zero] >>
    ELSE
    LET tmp == drop_duplicates(Project(t, {"user_session", "event_type"}))
        sessions_with_view ==
            nunique(Column(Loc(tmp, "event_type", "view"), "user_session"))
        sessions_with_cart ==
            nunique(Column(Loc(tmp, "event_type", "cart"), "user_session"))
        sessions_with_purchase ==
            nunique(Column(Loc(tmp, "event_type", "purchase"), "user_session"))
        view_to_cart_rate ==
            IF sessions_with_view # 0
            THEN Ratio(sessions_with_cart, sessions_with_view) ELSE Zero
        cart_to_purchase_rate ==
            IF sessions_with_cart # 0
            THEN Ratio(sessions_with_purchase, sessions_with_cart) ELSE Zero
    IN << [sessions_with_view     |-> sessions_with_view,
           sessions_with_cart     |-> sessions_with_cart,
           sessions_with_purchase |-> sessions_with_purchase,
           view_to_cart_rate      |-> view_to_cart_rate,
           cart_to_purchase_rate  |-> cart_to_purchase_rate] >>

----------------------------------------------------------------------------
(* src/analytics.py: funnels per category, price bucket and hour *)

TopN == 5

\* sort orders of the grouping keys
CategoryOrder == <<"c1", "c2">>
PriceBuckets == <<"<=50", "50-100", "100-200", "200-500", "500-1000", "1000-10000", "10000+">>
HourOrder == [h \in 1..HoursPerDay |-> h - 1]

\* pd.cut(price, bins=[-0.01, 50, 100, 200, 500, 1000, 10_000, 100_000]):
\* right-closed intervals, a value outside every bin is missing
price_bucket(p) ==
    IF p = NaN \/ p < 0 THEN NA
    ELSE IF p <= 50 THEN "<=50"
    ELSE IF p <= 100 THEN "50-100"
    ELSE IF p <= 200 THEN "100-200"
    ELSE IF p <= 500 THEN "200-500"
    ELSE IF p <= 1000 THEN "500-1000"
    ELSE IF p <= 10000 THEN "1000-10000"
    ELSE IF p <= 100000 THEN "10000+"
    ELSE NA

\* tmp = df: the same object under another name
copy_alias(t) == [rows |-> t, shared |-> TRUE]

\* DataFrame.copy(): a new object; writes to it do not reach the original
copy(t) == [rows |-> t, shared |-> FALSE]

\* tmp[col] = values: assign a column of the object
setcol(o, col, values) ==
    [o EXCEPT !.rows = [i \in DOMAIN o.rows |-> (col :> values[i]) @@ o.rows[i]]]

\* the caller's table once the callee has written to its working object
after_call(t, o) == IF o.shared THEN o.rows ELSE t

\* Series.replace(a, b), Series.fillna(v) and / on one element
replace(x, a, b) == IF x = a THEN b ELSE x
fillna(r, v) == IF r = NARate THEN v ELSE r
Divide(a, b) == IF a = NaN \/ b = NaN THEN NARate ELSE Ratio(a, b)

\* the 0 denominator is divided as it is
step_rate_no_replace(num, den) == fillna(Divide(num, den), Zero)

\* agg[num] / agg[den].replace(0, pd.NA), then fillna(0.0)
step_rate(num, den) == fillna(Divide(num, replace(den, 0, NaN)), Zero)

\* pd.crosstab([tmp[key], tmp["user_session"]], tmp["event_type"]): one row
\* per (key, session) with the number of tmp rows of each event type; rows
\* whose key or session is missing are dropped.  The loop after it adds the
\* view/cart/purchase columns that are absent.
crosstab(tmp, key, miss) ==
    LET kept == {i \in DOMAIN tmp : tmp[i][key] \notin miss /\ tmp[i].user_session # NA}
        idx == {<<tmp[i][key], tmp[i].user_session>> : i \in kept}
        cols == {tmp[i].event_type : i \in kept}
    IN [p \in idx |->
          [e \in cols |->
             Cardinality({i \in kept : /\ tmp[i][key] = p[1]
                                        /\ tmp[i].user_session = p[2]
                                        /\ tmp[i].event_type = e})]]

ensure_columns(ct) ==
    [p \in DOMAIN ct |->
       [e \in EventTypes |-> IF e \in DOMAIN ct[p] THEN ct[p][e] ELSE 0]]

RECURSIVE SumOver(_, _, _)
SumOver(ct, S, e) ==
    IF S = {} THEN 0
    ELSE LET p == CHOOSE q \in S : TRUE
         IN ct[p][e] + SumOver(ct, S \ {p}, e)

\* ct.groupby(key)[["view","cart","purchase"]].sum() with the two rate
\* columns; one row per key of `order` that is in `keys`
funnel_rows(ct, order, keys) ==
    LET AggRow(k) ==
            LET S == {p \in DOMAIN ct : p[1] = k}
                has_view == SumOver(ct, S, "view")
                has_cart == SumOver(ct, S, "cart")
                has_purchase == SumOver(ct, S, "purchase")
            IN [key |-> k,
                has_view |-> has_view,
                has_cart |-> has_cart,
                has_purchase |-> has_purchase,
                view_to_cart_rate |-> step_rate(has_cart, has_view),
                cart_to_purchase_rate |-> step_rate(has_purchase, has_cart)]
        F[i \in 0..Len(order)] ==
            IF i = 0 THEN <<>>
            ELSE IF order[i] \in keys THEN Append(F[i - 1], AggRow(order[i]))
                 ELSE F[i - 1]
    IN F[Len(order)]

KeysOf(ct) == {p[1] : p \in DOMAIN ct}

\* the categories head(top_n) can return: the top_n with the most purchase
\* sessions, ties in any order
TopCategories(purchases, top_n) ==
    LET cats == Range(Column(purchases, "category_code"))
        cnt(c) == nunique(Column(Loc(purchases, "category_code", c), "user_session"))
        n == IF Cardinality(cats) < top_n THEN Cardinality(cats) ELSE top_n
    IN {T \in SUBSET cats :
          /\ Cardinality(T) = n
          /\ \A a \in T, b \in cats \ T : cnt(a) >= cnt(b)}

\* top_cats is the choice head(top_n) made
funnel_by_category(t, top_cats) ==
    IF Len(t) = 0 THEN <<>>
    ELSE
    LET tmp0 == Filter(t, {i \in DOMAIN t : t[i].category_code # NA})
        purchases == Loc(tmp0, "event_type", "purchase")
    IN IF Len(purchases) = 0 \/ top_cats = {} THEN <<>>
       ELSE
       LET tmp1 == Filter(tmp0, {i \in DOMAIN tmp0 : tmp0[i].category_code \in top_cats})
           tmp == drop_duplicates(
                      Project(tmp1, {"category_code", "user_session", "event_type"}))
           ct == ensure_columns(crosstab(tmp, "category_code", {NA}))
       IN funnel_rows(ct, CategoryOrder, KeysOf(ct))

\* observed: whether the grouping lists only the buckets that occur
funnel_by_price_bucket(t, observed) ==
    IF Len(t) = 0 THEN [ret |-> <<>>, arg |-> t]
    ELSE
    LET tmp0 == copy(t)
        tmp1 == setcol(tmp0, "price",
                       [i \in DOMAIN t |-> IF t[i].price = NaN THEN 0 ELSE t[i].price])
        tmp2 == setcol(tmp1, "price_bucket",
                       [i \in DOMAIN t |-> price_bucket(tmp1.rows[i].price)])
        tmp == drop_duplicates(
                   Project(tmp2.rows, {"price_bucket", "user_session", "event_type"}))
        ct == ensure_columns(crosstab(tmp, "price_bucket", {NA}))
    IN [ret |-> funnel_rows(ct, PriceBuckets,
                            IF observed THEN KeysOf(ct) ELSE Range(PriceBuckets)),
        arg |-> after_call(t, tmp2)]

funnel_by_hour(t) ==
    IF Len(t) = 0 THEN <<>>
    ELSE
    LET tmp0 == copy(Filter(t, {i \in DOMAIN t : t[i].event_type \in {"view", "cart", "purchase"}}))
        tmp1 == setcol(tmp0, "event_time", Column(tmp0.rows, "event_time"))
        tmp2 == setcol(tmp1, "hour",
                       [i \in DOMAIN tmp1.rows |-> hour(tmp1.rows[i].event_time)])
        tmp == drop_duplicates(
                   Project(tmp2.rows, {"hour", "user_session", "event_type"}))
        ct == ensure_columns(crosstab(tmp, "hour", {}))
    IN funnel_rows(ct, HourOrder, KeysOf(ct))

----------------------------------------------------------------------------
(* ecommerce_dashboard/preprocess_sample.py *)

PREPROCESS_TARGET_ROWS == 1000000
CHUNKSIZE == 500000
SAMPLE_FRAC == <<1, 10>>

min(a, b) == IF a <= b THEN a ELSE b
max(a, b) == IF a >= b THEN a ELSE b

\* the chunks pd.read_csv(path, chunksize=size) yields for a file of rows data
\* rows: full chunks and a shorter last one; a file with a header and no data
\* row yields one empty chunk
n_chunks(rows, size) == max(1, (rows + size - 1) \div size)
chunk_len(rows, size, i) == min(size, rows - (i - 1) * size)

\* int(len(chunk) * SAMPLE_FRAC) rounded to the nearest row
tentative_rounded(len) == (2 * len * SAMPLE_FRAC[1] + SAMPLE_FRAC[2]) \div (2 * SAMPLE_FRAC[2])

\* int(len(chunk) * SAMPLE_FRAC)
tentative(len) == (len * SAMPLE_FRAC[1]) \div SAMPLE_FRAC[2]

\* min(remaining, tentative)
n_take(total, len) == min(PREPROCESS_TARGET_ROWS - total, tentative(len))

\* before main() is started: no file looked at, no local bound
NoPrep ==
    [pc |-> "idle", raw_exists |-> FALSE, raw_rows |-> 0, i |-> 0,
     total_collected |-> 0, samples |-> <<>>, log |-> <<>>, out_rows |-> -1]

\* one pass of the loop body over chunk i: what it was given and what it took
Pass(i, len, total, taken, sampled) ==
    [i |-> i, len |-> len, total |-> total, n_take |-> taken, sampled |-> sampled]

PrepCurrent == chunk_len(prep.raw_rows, CHUNKSIZE, prep.i + 1)

PrepRest == UNCHANGED <<anVars, dashVars, limits, shrink>>

\* if not RAW_PATH.exists(): raise FileNotFoundError
PrepRaise ==
    /\ prep.pc = "start"
    /\ ~prep.raw_exists
    /\ prep' = [prep EXCEPT !.pc = "raised"]
    /\ PrepRest

\* total_collected = 0, samples = [], reader = pd.read_csv(..., chunksize=CHUNKSIZE)
PrepOpen ==
    /\ prep.pc = "start"
    /\ prep.raw_exists
    /\ prep' = [prep EXCEPT !.pc = "loop", !.i = 0, !.total_collected = 0, !.samples = <<>>]
    /\ PrepRest

\* if total_collected >= TARGET_ROWS: break
PrepBreak ==
    /\ prep.pc = "loop"
    /\ prep.i < n_chunks(prep.raw_rows, CHUNKSIZE)
    /\ prep.total_collected >= PREPROCESS_TARGET_ROWS
    /\ prep' = [prep EXCEPT !.pc = "after_loop", !.i = @ + 1]
    /\ PrepRest

\* if n_take <= 0: continue
PrepSkip ==
    /\ prep.pc = "loop"
    /\ prep.i < n_chunks(prep.raw_rows, CHUNKSIZE)
    /\ prep.total_collected < PREPROCESS_TARGET_ROWS
    /\ n_take(prep.total_collected, PrepCurrent) <= 0
    /\ prep' = [prep EXCEPT
                  !.i = @ + 1,
                  !.log = Append(@, Pass(prep.i + 1, PrepCurrent, prep.total_collected,
                                         n_take(prep.total_collected, PrepCurrent), FALSE))]
    /\ PrepRest

\* sample_chunk = chunk.sample(n=n_take, random_state=42); samples.append(sample_chunk);
\* total_collected += len(sample_chunk)
PrepSample ==
    /\ prep.pc = "loop"
    /\ prep.i < n_chunks(prep.raw_rows, CHUNKSIZE)
    /\ prep.total_collected < PREPROCESS_TARGET_ROWS
    /\ LET n == n_take(prep.total_collected, PrepCurrent)
       IN /\ n > 0
          /\ prep' = [prep EXCEPT
                        !.i = @ + 1,
                        !.samples = Append(@, n),
                        !.total_collected = @ + n,
                        !.log = Append(@, Pass(prep.i + 1, PrepCurrent, prep.total_collected,
                                               n, TRUE))]
    /\ PrepRest

\* the reader has no chunk left
PrepExhausted ==
    /\ prep.pc = "loop"
    /\ prep.i = n_chunks(prep.raw_rows, CHUNKSIZE)
    /\ prep' = [prep EXCEPT !.pc = "after_loop"]
    /\ PrepRest

\* if not samples: print, return
PrepNoSamples ==
    /\ prep.pc = "after_loop"
    /\ prep.samples = <<>>
    /\ prep' = [prep EXCEPT !.pc = "done"]
    /\ PrepRest

\* pd.concat(samples), the two date columns, to_csv(OUT_PATH)
PrepSave ==
    /\ prep.pc = "after_loop"
    /\ prep.samples # <<>>
    /\ prep' = [prep EXCEPT !.pc = "done", !.out_rows = sum(prep.samples)]
    /\ PrepRest

NextPreprocess ==
    \/ PrepRaise
    \/ PrepOpen
    \/ PrepBreak
    \/ PrepSkip
    \/ PrepSample
    \/ PrepExhausted
    \/ PrepNoSamples
    \/ PrepSave

----------------------------------------------------------------------------
(* ecommerce_dashboard/shrink_sample.py *)

TARGET_MB == 99
CHUNK_SIZE == 500000

\* st_size is counted in quarters of (1024 ** 2) bytes
MB == 4

\* current_size_mb < TARGET_MB
small_enough_strict(st_size) == st_size < TARGET_MB * MB

\* current_size_mb <= TARGET_MB
small_enough(st_size) == st_size <= TARGET_MB * MB

\* a <= b for two fractions with positive denominators
Leq(a, b) == a[1] * b[2] <= b[1] * a[2]

\* frac = TARGET_MB / current_size_mb; frac *= 0.97; frac = min(max(frac, 0.05), 1.0)
sample_frac(st_size) ==
    LET raw == Ratio(97 * TARGET_MB * MB, 100 * st_size)
        low == IF Leq(raw, <<1, 20>>) THEN <<1, 20>> ELSE raw
    IN IF Leq(<<1, 1>>, low) THEN <<1, 1>> ELSE low

\* round(frac * len): the number of rows chunk.sample(frac=frac) returns,
\* a half going to the even neighbour
sample_size(frac, len) ==
    LET q == len \div frac[2]
        r == len % frac[2]
        whole == q * frac[1] + (r * frac[1]) \div frac[2]
        rest == (r * frac[1]) % frac[2]
    IN IF 2 * rest > frac[2] \/ (2 * rest = frac[2] /\ whole % 2 = 1)
       THEN whole + 1
       ELSE whole

\* what one to_csv call puts in a file: the header line, the rows of a chunk
HeaderLine == [kind |-> "header", chunk |-> 0, rows |-> 0]
DataRows(chunk, n) == [kind |-> "rows", chunk |-> chunk, rows |-> n]

\* every chunk appended
write_mode_append(first_chunk) == "a"

\* mode = "w" if first_chunk else "a"
write_mode(first_chunk) == IF first_chunk THEN "w" ELSE "a"

\* sampled.to_csv(OUT_PATH, mode=mode, header=header, index=False)
to_csv(content, chunk, n, mode, header) ==
    LET text == (IF header THEN <<HeaderLine>> ELSE <<>>) \o <<DataRows(chunk, n)>>
    IN IF mode = "w" THEN text ELSE content \o text

\* a file: whether it exists and what it holds
NoFile == [exists |-> FALSE, content |-> <<>>]
OldFile == [exists |-> TRUE, content |-> <<HeaderLine, DataRows(1, 3)>>]

\* before main() is started
NoShrink ==
    [pc |-> "idle", src_exists |-> FALSE, st_size |-> 0, src_rows |-> 0,
     old |-> NoFile, out |-> NoFile, frac |-> <<0, 1>>, i |-> 0,
     first_chunk |-> TRUE, rows_kept |-> 0, out_size |-> -1]

ShrinkRest == UNCHANGED <<anVars, dashVars, limits, prep>>

\* if not SRC_PATH.exists(): raise FileNotFoundError
ShrinkRaise ==
    /\ shrink.pc = "start"
    /\ ~shrink.src_exists
    /\ shrink' = [shrink EXCEPT !.pc = "raised"]
    /\ ShrinkRest

\* if current_size_mb <= TARGET_MB: print, return
ShrinkReturn ==
    /\ shrink.pc = "start"
    /\ shrink.src_exists
    /\ small_enough(shrink.st_size)
    /\ shrink' = [shrink EXCEPT !.pc = "returned"]
    /\ ShrinkRest

\* frac is computed; first_chunk = True; rows_kept = 0
ShrinkBegin ==
    /\ shrink.pc = "start"
    /\ shrink.src_exists
    /\ ~small_enough(shrink.st_size)
    /\ shrink' = [shrink EXCEPT !.pc = "loop", !.frac = sample_frac(shrink.st_size),
                                !.first_chunk = TRUE, !.rows_kept = 0, !.i = 0]
    /\ ShrinkRest

\* one pass of the loop: sample the chunk, write it, first_chunk = False
ShrinkChunk ==
    /\ shrink.pc = "loop"
    /\ shrink.i < n_chunks(shrink.src_rows, CHUNK_SIZE)
    /\ LET len == chunk_len(shrink.src_rows, CHUNK_SIZE, shrink.i + 1)
           sampled == sample_size(shrink.frac, len)
           mode == write_mode(shrink.first_chunk)
           header == shrink.first_chunk
       IN shrink' = [shrink EXCEPT
                       !.i = @ + 1,
                       !.rows_kept = @ + sampled,
                       !.out = [exists |-> TRUE,
                                content |-> to_csv(@.content, shrink.i + 1, sampled,
                                                   mode, header)],
                       !.first_chunk = FALSE]
    /\ ShrinkRest

\* the loop is over: OUT_PATH.stat(), the final prints
ShrinkFinish ==
    /\ shrink.pc = "loop"
    /\ shrink.i = n_chunks(shrink.src_rows, CHUNK_SIZE)
    /\ shrink' = [shrink EXCEPT !.pc = "done", !.out_size = Len(shrink.out.content)]
    /\ ShrinkRest

NextShrink ==
    \/ ShrinkRaise
    \/ ShrinkReturn
    \/ ShrinkBegin
    \/ ShrinkChunk
    \/ ShrinkFinish

----------------------------------------------------------------------------
(* Calls of the analytics functions on a table *)

NoWidgets ==
    [date_range |-> <<>>, selected |-> {}, chosen_cats |-> {}, chosen_brands |-> {},
     fast_mode |-> TRUE]

NoHeavy == [rows |-> <<>>, shared |-> TRUE]

InitAnalytics ==
    /\ df = <<>>
    /\ op = "idle"
    /\ out = <<>>
    /\ before = <<>>
    /\ pc = "idle"
    /\ csv = <<>>
    /\ file_exists = TRUE
    /\ cache = <<>>
    /\ reads = 0
    /\ widgets = NoWidgets
    /\ filtered = <<>>
    /\ filtered_heavy = NoHeavy
    /\ trace = <<>>
    /\ page = <<>>
    /\ limits = BuildLimits
    /\ prep = NoPrep
    /\ shrink = NoShrink

\* read_csv: one more row of the file is in the table
ReadRow ==
    /\ op = "idle"
    /\ Len(df) < MaxRows
    /\ \E k \in DOMAIN Rows :
          /\ Ordered(Append(df, Rows[k]))
          /\ df' = Append(df, Rows[k])
    /\ UNCHANGED <<op, out, before>>
    /\ UNCHANGED appVars

\* a call is made when no result is pending
CanCall == op = "idle"

ComputeKpis ==
    /\ CanCall
    /\ out' = <<compute_kpis(df)>>
    /\ op' = "compute_kpis"
    /\ UNCHANGED <<df, before>>
    /\ UNCHANGED appVars

FunnelBySession ==
    /\ CanCall
    /\ out' = funnel_by_session(df)
    /\ op' = "funnel_by_session"
    /\ UNCHANGED <<df, before>>
    /\ UNCHANGED appVars

FunnelByCategory ==
    /\ CanCall
    /\ \E top_n \in {1, TopN} :
       \E top_cats \in TopCategories(
                          Loc(Filter(df, {i \in DOMAIN df : df[i].category_code # NA}),
                              "event_type", "purchase"), top_n) :
          out' = funnel_by_category(df, top_cats)
    /\ op' = "funnel_by_category"
    /\ UNCHANGED <<df, before>>
    /\ UNCHANGED appVars

FunnelByPriceBucket ==
    /\ CanCall
    /\ \E observed \in BOOLEAN :
          LET r == funnel_by_price_bucket(df, observed)
          IN out' = r.ret /\ df' = r.arg
    /\ op' = "funnel_by_price_bucket"
    /\ UNCHANGED before
    /\ UNCHANGED appVars

FunnelByHour ==
    /\ CanCall
    /\ out' = funnel_by_hour(df)
    /\ op' = "funnel_by_hour"
    /\ UNCHANGED <<df, before>>
    /\ UNCHANGED appVars

InsertAt(t, j, r) == SubSeq(t, 1, j) \o <<r>> \o SubSeq(t, j + 1, Len(t))

\* One more event of a (session, event type) the table already holds, put
\* where the table stays in the order of Tables
AddDuplicateEvent ==
    /\ op = "funnel_by_session"
    /\ before = <<>>
    /\ Len(df) >= 1
    /\ Len(df) < MaxRows
    /\ \E i \in DOMAIN df, k \in DOMAIN Attrs, j \in 0..Len(df) :
          LET t == InsertAt(df, j, Event(df[i].user_session, df[i].event_type, Attrs[k]))
          IN Ordered(t) /\ df' = t
    /\ before' = out
    /\ op' = "add_duplicate"
    /\ out' = out
    /\ UNCHANGED appVars

\* funnel_by_session called again on the table with the duplicate
FunnelBySessionAgain ==
    /\ op = "add_duplicate"
    /\ out' = funnel_by_session(df)
    /\ op' = "funnel_by_session"
    /\ UNCHANGED <<df, before>>
    /\ UNCHANGED appVars

\* the caller is done with the result
Return ==
    /\ op \notin {"idle", "add_duplicate"}
    /\ op' = "idle"
    /\ out' = <<>>
    /\ before' = <<>>
    /\ UNCHANGED df
    /\ UNCHANGED appVars

NextAnalytics ==
    \/ ReadRow
    \/ ComputeKpis
    \/ FunnelBySession
    \/ FunnelByCategory
    \/ FunnelByPriceBucket
    \/ FunnelByHour
    \/ AddDuplicateEvent
    \/ FunnelBySessionAgain
    \/ Return

SpecAnalytics == InitAnalytics /\ [][NextAnalytics]_vars

----------------------------------------------------------------------------
(* src/analytics.py: time to purchase *)

SessionOrder == <<"s1", "s2">>

Min(S) == CHOOSE x \in S : \A y \in S : x <= y
Max(S) == CHOOSE x \in S : \A y \in S : x >= y

\* minutes from the first view to the first purchase of each session that
\* has both, negative differences left out
time_to_purchase_distribution(t) ==
    LET tmp0 == copy(t)
        tmp == setcol(tmp0, "event_time", Column(tmp0.rows, "event_time"))
        times(s, e) == {tmp.rows[i].event_time :
                          i \in {j \in DOMAIN tmp.rows :
                                   /\ tmp.rows[j].user_session = s
                                   /\ tmp.rows[j].event_type = e}}
        F[i \in 0..Len(SessionOrder)] ==
            IF i = 0 THEN <<>>
            ELSE LET s == SessionOrder[i]
                 IN IF times(s, "view") # {} /\ times(s, "purchase") # {}
                       /\ Min(times(s, "purchase")) >= Min(times(s, "view"))
                    THEN Append(F[i - 1],
                                [minutes_to_purchase |->
                                   (Min(times(s, "purchase")) - Min(times(s, "view"))) * 60])
                    ELSE F[i - 1]
    IN [ret |-> F[Len(SessionOrder)], arg |-> after_call(t, tmp)]

----------------------------------------------------------------------------
(* src/data_loader.py: load_data *)

\* a sample drawn with replacement: a row can be picked twice
sample_with_replacement(t, n) ==
    { [i \in 1..n |-> t[f[i]]] : f \in [1..n -> DOMAIN t] }

\* DataFrame.sample(n, random_state=42): n different rows of the table, the
\* ones the seeded generator picks, in the order it picks them
sample(t, n) ==
    { [i \in 1..n |-> t[f[i]]] :
        f \in { g \in [1..n -> DOMAIN t] : \A i, j \in 1..n : i # j => g[i] # g[j] } }

\* .sort_values("event_time") of a sample
sorted_by_time(S) ==
    { s \in S : \A i \in 1..(Len(s) - 1) : s[i].event_time <= s[i + 1].event_time }

\* the outcomes of load_data() for a file with the lines t
load_data(exists, t) ==
    IF ~exists
    THEN { [raised |-> TRUE, read |-> 0, df |-> <<>>] }
    ELSE { [raised |-> FALSE, read |-> 1, df |-> derive_columns(s)] :
             s \in IF Len(t) > limits.target_rows
                   THEN sorted_by_time(sample(t, limits.target_rows))
                   ELSE {t} }

----------------------------------------------------------------------------
(* src/app.py: apply_filters *)

\* what st.sidebar.date_input can return: a (start, end) pair inside
\* [min_date, max_date], or the 1-tuple it holds while only the start is picked
DateRanges(t) ==
    LET dates == Range(Column(t, "event_date"))
        days == Min(dates)..Max(dates)
    IN {<<s, e>> : s \in days, e \in days} \cup {<<s>> : s \in days}

Options(t, col) == Range(Column(t, col)) \ {NA}

in_date_range(t, date_range) ==
    Filter(t, {i \in DOMAIN t : /\ t[i].event_date >= date_range[1]
                                /\ t[i].event_date <= date_range[2]})

\* a filter that lets the rows with a missing value through
isin_or_missing(t, col, chosen) ==
    IF chosen # {} THEN Filter(t, {i \in DOMAIN t : t[i][col] \in chosen \cup {NA}}) ELSE t

\* filtered[filtered[col].isin(chosen)] when something is chosen
isin_if_chosen(t, col, chosen) ==
    IF chosen # {} THEN Filter(t, {i \in DOMAIN t : t[i][col] \in chosen}) ELSE t

\* the category filter applied whatever the selection
isin_always(t, col, chosen) == Filter(t, {i \in DOMAIN t : t[i][col] \in chosen})

by_event_type(t, w) == isin_if_chosen(in_date_range(t, w.date_range), "event_type", w.selected)
by_category(t, w) == isin_if_chosen(by_event_type(t, w), "category_code", w.chosen_cats)
by_brand(t, w) == isin_if_chosen(by_category(t, w), "brand", w.chosen_brands)

apply_filters_category_always(t, w) ==
    isin_if_chosen(isin_always(by_event_type(t, w), "category_code", w.chosen_cats),
                   "brand", w.chosen_brands)

apply_filters(t, w) == by_brand(t, w)

\* the inputs the sidebar can give for the table t
WidgetInputs(t) ==
    { w \in [date_range : {r \in DateRanges(t) : Len(r) = 2 /\ r[1] <= r[2]},
             selected : SUBSET Options(t, "event_type"),
             chosen_cats : SUBSET Options(t, "category_code"),
             chosen_brands : SUBSET Options(t, "brand"),
             fast_mode : {TRUE}] :
        /\ w.selected \subseteq Options(in_date_range(t, w.date_range), "event_type")
        /\ w.chosen_cats \subseteq Options(by_event_type(t, w), "category_code")
        /\ w.chosen_brands \subseteq Options(by_category(t, w), "brand") }

----------------------------------------------------------------------------
(* src/app.py: main *)

\* the except branch without st.stop()
AfterLoadError_continue == "loaded"

\* where the run goes after the except branch: st.error, then st.stop()
AfterLoadError == "stopped"

\* the check that never finds the table empty
no_data_never(t) == FALSE

\* filtered.empty
no_data(t) == Len(t) = 0

\* f"{x:,.2f}": x = num / den in hundredths, halves rounded up
fmt2(num, den) == IF den = 0 THEN NaN ELSE (200 * num + den) \div (2 * den)

Call(fn, table) == <<fn, table>>

Between == {"idle", "done", "stopped", "crashed"}

\* the files the process can find: at most MaxFileRows lines
FileLines == {1, 2, 3, 7, 8, 9, 10}

RECURSIVE Files(_, _)
Files(n, lo) ==
    IF n = 0 THEN {<<>>}
    ELSE {<<>>} \cup UNION { { <<CsvRows[k]>> \o rest : rest \in Files(n - 1, k) } :
                              k \in {l \in FileLines : l >= lo} }

Init ==
    /\ df = <<>>
    /\ op = "idle"
    /\ out = <<>>
    /\ before = <<>>
    /\ pc = "idle"
    /\ csv \in Files(MaxFileRows, 1)
    /\ file_exists \in BOOLEAN
    /\ cache = <<>>
    /\ reads = 0
    /\ widgets = NoWidgets
    /\ filtered = <<>>
    /\ filtered_heavy = NoHeavy
    /\ trace = <<>>
    /\ page = <<>>
    /\ limits = BuildLimits
    /\ prep = NoPrep
    /\ shrink = NoShrink

\* the file is deleted or put back between two runs
RemoveFile ==
    /\ pc \in Between
    /\ file_exists
    /\ file_exists' = FALSE
    /\ UNCHANGED <<anVars, pc, csv, scriptVars, cache, reads, widgets, filtered, filtered_heavy, trace, page>>

RestoreFile ==
    /\ pc \in Between
    /\ ~file_exists
    /\ file_exists' = TRUE
    /\ UNCHANGED <<anVars, pc, csv, scriptVars, cache, reads, widgets, filtered, filtered_heavy, trace, page>>

\* a page load or a widget interaction runs the script from the top
StartRun ==
    /\ pc \in Between
    /\ pc' = "start"
    /\ df' = <<>>
    /\ widgets' = NoWidgets
    /\ filtered' = <<>>
    /\ filtered_heavy' = NoHeavy
    /\ trace' = <<>>
    /\ page' = <<>>
    /\ UNCHANGED <<op, out, before, csv, scriptVars, file_exists, cache, reads>>

\* get_data() without @st.cache_data: load_data() runs in every run
GetDataCached_reload ==
    /\ pc = "start"
    /\ cache # <<>>
    /\ \E r \in load_data(file_exists, csv) :
          /\ ~r.raised
          /\ df' = r.df
          /\ cache' = <<r.df>>
          /\ reads' = reads + r.read
    /\ trace' = trace \o <<Call("get_data", ""), Call("load_data", "")>>
    /\ pc' = "loaded"
    /\ UNCHANGED <<op, out, before, csv, scriptVars, file_exists, widgets, filtered,
                   filtered_heavy, page>>

\* get_data() answered from the cache
GetDataCached ==
    /\ pc = "start"
    /\ cache # <<>>
    /\ df' = cache[1]
    /\ trace' = Append(trace, Call("get_data", ""))
    /\ pc' = "loaded"
    /\ UNCHANGED <<op, out, before, csv, scriptVars, file_exists, cache, reads, widgets,
                   filtered, filtered_heavy, page>>

\* get_data() runs load_data() and keeps what it returns
GetDataLoad ==
    /\ pc = "start"
    /\ cache = <<>>
    /\ \E r \in load_data(file_exists, csv) :
          /\ ~r.raised
          /\ df' = r.df
          /\ cache' = <<r.df>>
          /\ reads' = reads + r.read
    /\ trace' = trace \o <<Call("get_data", ""), Call("load_data", "")>>
    /\ pc' = "loaded"
    /\ UNCHANGED <<op, out, before, csv, scriptVars, file_exists, widgets, filtered, filtered_heavy, page>>

\* load_data() raises; main reports it and stops
GetDataError ==
    /\ pc = "start"
    /\ cache = <<>>
    /\ \E r \in load_data(file_exists, csv) :
          /\ r.raised
          /\ reads' = reads + r.read
    /\ trace' = trace \o <<Call("get_data", ""), Call("load_data", ""),
                           Call("st.error", ""), Call("st.stop", "")>>
    /\ page' = Append(page, <<"st.error", "Error loading data: CSV file not found">>)
    /\ pc' = AfterLoadError
    /\ UNCHANGED <<df, op, out, before, csv, scriptVars, file_exists, cache, widgets,
                   filtered, filtered_heavy>>

ApplyFilters ==
    /\ pc = "loaded"
    /\ Len(df) > 0
    /\ \E w \in WidgetInputs(df) :
          /\ widgets' = w
          /\ filtered' = apply_filters(df, w)
    /\ trace' = Append(trace, Call("apply_filters", "df"))
    /\ pc' = "filtered"
    /\ UNCHANGED <<df, op, out, before, csv, scriptVars, file_exists, cache, reads, filtered_heavy, page>>

\* an empty table has no min/max date: max_date - timedelta(days=13) raises
ApplyFiltersNoDates ==
    /\ pc = "loaded"
    /\ Len(df) = 0
    /\ trace' = Append(trace, Call("apply_filters", "df"))
    /\ pc' = "crashed"
    /\ UNCHANGED <<df, op, out, before, csv, scriptVars, file_exists, cache, reads, widgets,
                   filtered, filtered_heavy, page>>

\* start_date, end_date = date_range raises on a 1-tuple
ApplyFiltersHalfRange ==
    /\ pc = "loaded"
    /\ Len(df) > 0
    /\ \E r \in DateRanges(df) :
          /\ Len(r) = 1
          /\ widgets' = [widgets EXCEPT !.date_range = r]
    /\ trace' = Append(trace, Call("apply_filters", "df"))
    /\ pc' = "crashed"
    /\ UNCHANGED <<df, op, out, before, csv, scriptVars, file_exists, cache, reads,
                   filtered, filtered_heavy, page>>

\* if filtered.empty: st.warning, st.stop()
NoData ==
    /\ pc = "filtered"
    /\ no_data(filtered)
    /\ trace' = trace \o <<Call("st.warning", ""), Call("st.stop", "")>>
    /\ page' = Append(page, <<"st.warning", "No data for the selected filters.">>)
    /\ pc' = "stopped"
    /\ UNCHANGED <<df, op, out, before, csv, scriptVars, file_exists, cache, reads, widgets,
                   filtered, filtered_heavy>>

\* the fast mode toggle and the table of the heavy tabs
FastMode ==
    /\ pc = "filtered"
    /\ ~no_data(filtered)
    /\ \E fast_mode \in BOOLEAN :
          /\ widgets' = [widgets EXCEPT !.fast_mode = fast_mode]
          /\ IF fast_mode /\ Len(filtered) > limits.max_rows_detailed
             THEN \E s \in sample(filtered, limits.max_rows_detailed) :
                     filtered_heavy' = [rows |-> s, shared |-> FALSE]
             ELSE filtered_heavy' = [rows |-> filtered, shared |-> TRUE]
    /\ pc' = "overview"
    /\ UNCHANGED <<df, op, out, before, csv, scriptVars, file_exists, cache, reads, filtered, trace, page>>

OverviewTab ==
    /\ pc = "overview"
    /\ LET kpis == compute_kpis(filtered)
       IN page' = page \o
            << <<"Revenue", fmt2(kpis.total_revenue, 1)>>,
               <<"Orders (sessions w/ purchase)", kpis.total_sessions>>,
               <<"Unique Users", kpis.total_users>>,
               <<"Conversion Rate",
                 fmt2(100 * kpis.conversion_rate[1], kpis.conversion_rate[2])>>,
               <<"Avg Order Value",
                 fmt2(kpis.avg_order_value[1], kpis.avg_order_value[2])>> >>
    /\ trace' = trace \o
         << Call("compute_kpis", "filtered"), Call("st.metric", "kpis"),
            Call("event_type_distribution", "filtered"), Call("render", "ev_dist"),
            Call("trends_summary", "filtered"), Call("render", "trends_summary"),
            Call("category_revenue", "filtered"), Call("render", "top_cat") >>
    /\ pc' = "funnel"
    /\ UNCHANGED <<df, op, out, before, csv, scriptVars, file_exists, cache, reads, widgets,
                   filtered, filtered_heavy>>

FunnelTab ==
    /\ pc = "funnel"
    /\ LET h == filtered_heavy.rows
           purchases == Loc(Filter(h, {i \in DOMAIN h : h[i].category_code # NA}),
                            "event_type", "purchase")
       IN \E top_cats \in TopCategories(purchases, TopN), observed \in BOOLEAN :
            LET funnel_df == funnel_by_session(h)
                fc == funnel_by_category(h, top_cats)
                fp == funnel_by_price_bucket(h, observed)
                fh == funnel_by_hour(fp.arg)
            IN /\ page' = page \o
                    << <<"funnel_by_session", funnel_df>>,
                       <<"funnel_by_category", fc>>,
                       <<"funnel_by_price_bucket", fp.ret>>,
                       <<"funnel_by_hour", fh>> >>
               /\ filtered_heavy' = [filtered_heavy EXCEPT !.rows = fp.arg]
               /\ filtered' = IF filtered_heavy.shared THEN fp.arg ELSE filtered
    /\ trace' = trace \o
         << Call("funnel_by_session", "filtered_heavy"), Call("render", "funnel_df"),
            Call("funnel_by_category", "filtered_heavy"), Call("render", "fc"),
            Call("funnel_by_price_bucket", "filtered_heavy"), Call("render", "fp"),
            Call("funnel_by_hour", "filtered_heavy"), Call("render", "fh") >>
    /\ pc' = "categories"
    /\ UNCHANGED <<df, op, out, before, csv, scriptVars, file_exists, cache, reads, widgets>>

\* the two revenue charts, then the advanced metrics when their checkbox is ticked
CategoriesTab ==
    /\ pc = "categories"
    /\ \E show_advanced \in BOOLEAN :
          IF show_advanced
          THEN LET ttp == time_to_purchase_distribution(filtered)
               IN /\ page' = Append(page, <<"time_to_purchase_distribution", ttp.ret>>)
                  /\ filtered' = ttp.arg
                  /\ filtered_heavy' = IF filtered_heavy.shared
                                       THEN [filtered_heavy EXCEPT !.rows = ttp.arg]
                                       ELSE filtered_heavy
                  /\ trace' = trace \o
                       << Call("category_revenue", "filtered"), Call("render", "cr"),
                          Call("category_price_revenue", "filtered"), Call("render", "cpr"),
                          Call("st.checkbox", "True"),
                          Call("repeat_purchase_stats", "filtered"), Call("render", "rp"),
                          Call("time_to_purchase_distribution", "filtered"),
                          Call("render", "ttp"),
                          Call("high_view_low_buy_categories", "filtered"),
                          Call("render", "hv") >>
          ELSE /\ page' = Append(page, <<"st.info", "Advanced metrics are hidden">>)
               /\ trace' = trace \o
                    << Call("category_revenue", "filtered"), Call("render", "cr"),
                       Call("category_price_revenue", "filtered"), Call("render", "cpr"),
                       Call("st.checkbox", "False") >>
               /\ UNCHANGED <<filtered, filtered_heavy>>
    /\ pc' = "products"
    /\ UNCHANGED <<df, op, out, before, csv, scriptVars, file_exists, cache, reads, widgets>>

\* the Products tab aggregates filtered_heavy in place, no analytics function
ProductsTab ==
    /\ pc = "products"
    /\ trace' = trace \o
         << Call("groupby", "filtered_heavy"), Call("render", "products") >>
    /\ pc' = "done"
    /\ UNCHANGED <<df, op, out, before, csv, scriptVars, file_exists, cache, reads, widgets,
                   filtered, filtered_heavy, page>>

Next ==
    \/ RemoveFile
    \/ RestoreFile
    \/ StartRun
    \/ GetDataCached
    \/ GetDataLoad
    \/ GetDataError
    \/ ApplyFilters
    \/ ApplyFiltersNoDates
    \/ ApplyFiltersHalfRange
    \/ NoData
    \/ FastMode
    \/ OverviewTab
    \/ FunnelTab
    \/ CategoriesTab
    \/ ProductsTab

Spec == Init /\ [][Next]_vars

----------------------------------------------------------------------------
(* The dashboard built with limits the size of the files *)

\* the lines of the small files: a view and a later purchase of one session
ScaledLines == {1, 8}

\* files of at most MaxScaledRows lines, in any order
ScaledFiles ==
    UNION { [1..n -> {CsvRows[k] : k \in ScaledLines}] : n \in 0..MaxScaledRows }

\* limits that the longer of these files and their tables exceed
ScaledLimits == { [target_rows |-> 2, max_rows_detailed |-> 1] }

InitScaled ==
    /\ df = <<>>
    /\ op = "idle"
    /\ out = <<>>
    /\ before = <<>>
    /\ pc = "idle"
    /\ csv \in ScaledFiles
    /\ file_exists = TRUE
    /\ cache = <<>>
    /\ reads = 0
    /\ widgets = NoWidgets
    /\ filtered = <<>>
    /\ filtered_heavy = NoHeavy
    /\ trace = <<>>
    /\ page = <<>>
    /\ limits \in ScaledLimits
    /\ prep = NoPrep
    /\ shrink = NoShrink

SpecScaled == InitScaled /\ [][Next]_vars

----------------------------------------------------------------------------
(* Runs of the two preprocessing scripts *)

\* the dashboard is not running
NoDashboard ==
    /\ df = <<>>
    /\ op = "idle"
    /\ out = <<>>
    /\ before = <<>>
    /\ pc = "idle"
    /\ csv = <<>>
    /\ file_exists = TRUE
    /\ cache = <<>>
    /\ reads = 0
    /\ widgets = NoWidgets
    /\ filtered = <<>>
    /\ filtered_heavy = NoHeavy
    /\ trace = <<>>
    /\ page = <<>>
    /\ limits = BuildLimits

\* the raw files: up to MaxChunks chunks, the last one of any of these lengths
RawTails == {0, 5, 10, 19, CHUNKSIZE - 1}
RawSizes == { k * CHUNKSIZE + r : k \in 0..(MaxChunks - 1), r \in RawTails }

InitPreprocess ==
    /\ NoDashboard
    /\ shrink = NoShrink
    /\ prep \in { [NoPrep EXCEPT !.pc = "start", !.raw_exists = e, !.raw_rows = n] :
                    e \in BOOLEAN, n \in RawSizes }

SpecPreprocess == InitPreprocess /\ [][NextPreprocess]_vars

\* the source files: sizes around the target, up to MaxShrinkChunks chunks
SrcSizes == {MB, TARGET_MB * MB, TARGET_MB * MB + 1, 2 * TARGET_MB * MB, 2000 * MB}
SrcRows == { k * CHUNK_SIZE + r : k \in 0..(MaxShrinkChunks - 1), r \in {1, 7, CHUNK_SIZE} }

InitShrink ==
    /\ NoDashboard
    /\ prep = NoPrep
    /\ shrink \in { [NoShrink EXCEPT !.pc = "start", !.src_exists = e, !.st_size = b,
                                     !.src_rows = n, !.old = f, !.out = f] :
                      e \in BOOLEAN, b \in SrcSizes, n \in SrcRows, f \in {NoFile, OldFile} }

SpecShrink == InitShrink /\ [][NextShrink]_vars

----------------------------------------------------------------------------
(* Properties *)

\* the sessions of the table that hold an event of type e
HasEvent(e) == {df[i].user_session : i \in {j \in DOMAIN df : df[j].event_type = e}} \ {NA}

AllSessions == {df[i].user_session : i \in DOMAIN df} \ {NA}

RECURSIVE PurchaseTotal(_)
PurchaseTotal(n) ==
    IF n = 0 THEN 0
    ELSE PurchaseTotal(n - 1)
         + (IF df[n].event_type = "purchase" /\ df[n].price # NaN THEN df[n].price ELSE 0)

\* C1: funnel_by_session counts each event type on its own, so the ordering
\* purchase <= cart <= view is not guaranteed: a table with a purchase session
\* and no cart session returns sessions_with_purchase > sessions_with_cart,
\* and one with a cart session and no view session returns
\* sessions_with_cart > sessions_with_view.
C1_FunnelNotMonotonic ==
    op = "funnel_by_session" =>
        /\ (HasEvent("purchase") # {} /\ HasEvent("cart") = {})
              => out[1].sessions_with_purchase > out[1].sessions_with_cart
        /\ (HasEvent("cart") # {} /\ HasEvent("view") = {})
              => out[1].sessions_with_cart > out[1].sessions_with_view
        /\ (HasEvent("purchase") \ HasEvent("cart") # {} /\ HasEvent("cart") \subseteq HasEvent("purchase"))
              => out[1].sessions_with_purchase > out[1].sessions_with_cart

C1_Witness ==
    /\ op = "funnel_by_session"
    /\ out[1].sessions_with_purchase > out[1].sessions_with_cart
    /\ out[1].sessions_with_cart > out[1].sessions_with_view

\* C2 as stated: whenever the denominator count is > 0 the step rates of
\* funnel_by_session lie in [0,1].
C2_RatesInUnitInterval ==
    op = "funnel_by_session" =>
        /\ out[1].sessions_with_view > 0 => InUnitInterval(out[1].view_to_cart_rate)
        /\ out[1].sessions_with_cart > 0 => InUnitInterval(out[1].cart_to_purchase_rate)

\* C2 amended: whenever the denominator count is > 0 each step rate is the
\* finite non-negative quotient numerator count / denominator count, and it
\* is <= 1 exactly when the numerator count does not exceed the denominator
\* count.
C2_RatesAreQuotients ==
    op = "funnel_by_session" =>
        /\ out[1].sessions_with_view > 0 =>
              /\ out[1].view_to_cart_rate =
                    Ratio(Cardinality(HasEvent("cart")), Cardinality(HasEvent("view")))
              /\ out[1].view_to_cart_rate[1] >= 0 /\ out[1].view_to_cart_rate[2] > 0
              /\ InUnitInterval(out[1].view_to_cart_rate)
                    <=> out[1].sessions_with_cart <= out[1].sessions_with_view
        /\ out[1].sessions_with_cart > 0 =>
              /\ out[1].cart_to_purchase_rate =
                    Ratio(Cardinality(HasEvent("purchase")), Cardinality(HasEvent("cart")))
              /\ out[1].cart_to_purchase_rate[1] >= 0 /\ out[1].cart_to_purchase_rate[2] > 0
              /\ InUnitInterval(out[1].cart_to_purchase_rate)
                    <=> out[1].sessions_with_purchase <= out[1].sessions_with_cart

C2_Witness ==
    /\ op = "funnel_by_session"
    /\ out[1].sessions_with_view > 0
    /\ out[1].view_to_cart_rate = <<2, 1>>

\* C3: compute_kpis returns conversion_rate = distinct sessions with a
\* purchase event / distinct sessions; it lies in [0,1] when the table has a
\* session and is exactly 0 when it has none.
C3_ConversionRate ==
    op = "compute_kpis" =>
        IF AllSessions # {}
        THEN /\ out[1].conversion_rate =
                   Ratio(Cardinality(HasEvent("purchase")), Cardinality(AllSessions))
             /\ InUnitInterval(out[1].conversion_rate)
        ELSE out[1].conversion_rate = Zero

C3_Witness ==
    /\ op = "compute_kpis"
    /\ out[1].conversion_rate = <<1, 2>>
    /\ Len(Loc(df, "event_type", "purchase")) = 2

\* C5: compute_kpis total_revenue is the sum of price over exactly the
\* purchase events of the table, each counted once; view and cart events
\* add nothing, and it is 0 without purchase events.
C5_RevenueIsPurchaseSum ==
    op = "compute_kpis" => out[1].total_revenue = PurchaseTotal(Len(df))

C5_Witness ==
    /\ op = "compute_kpis"
    /\ out[1].total_revenue = 20
    /\ \E i \in DOMAIN df : df[i].event_type = "view" /\ df[i].price = 60

\* C10: funnel_by_session counts a session at most once per event type:
\* after one more event of a (session, event type) the table already holds,
\* the three counts and both rates are what they were before.
C10_DuplicatesIgnored ==
    (op = "funnel_by_session" /\ before # <<>>) => out = before

C10_Witness ==
    /\ op = "funnel_by_session"
    /\ before # <<>>
    /\ out[1].sessions_with_view = 1
    /\ out[1].view_to_cart_rate = <<1, 1>>
    /\ Len(Loc(df, "event_type", "view")) = 2

GroupFunnels == {"funnel_by_category", "funnel_by_price_bucket", "funnel_by_hour"}

\* C4: in funnel_by_session and in every row of funnel_by_category,
\* funnel_by_price_bucket and funnel_by_hour, a step rate whose denominator
\* count is 0 is reported as 0, never as a missing value or infinity.
C4_ZeroDenominatorGivesZero ==
    /\ op = "funnel_by_session" =>
          /\ out[1].sessions_with_view = 0 => out[1].view_to_cart_rate = Zero
          /\ out[1].sessions_with_cart = 0 => out[1].cart_to_purchase_rate = Zero
    /\ op \in GroupFunnels =>
          \A i \in DOMAIN out :
             /\ out[i].has_view = 0 => out[i].view_to_cart_rate = Zero
             /\ out[i].has_cart = 0 => out[i].cart_to_purchase_rate = Zero
             /\ out[i].view_to_cart_rate[2] > 0
             /\ out[i].cart_to_purchase_rate[2] > 0

C4_Witness ==
    /\ op = "funnel_by_category"
    /\ \E i \in DOMAIN out :
          /\ out[i].has_view = 0
          /\ out[i].has_cart = 1
          /\ out[i].has_purchase = 2
          /\ out[i].view_to_cart_rate = Zero

Aggregations ==
    {"compute_kpis", "event_type_distribution", "trends_summary", "category_revenue",
     "funnel_by_session", "funnel_by_category", "funnel_by_price_bucket",
     "funnel_by_hour", "category_price_revenue", "repeat_purchase_stats",
     "time_to_purchase_distribution", "high_view_low_buy_categories", "groupby"}

Renders == {"st.metric", "render"}

Called(fn) == \E i \in DOMAIN trace : trace[i][1] = fn

LastShown(kind) == page # <<>> /\ page[Len(page)][1] = kind

\* C6: with no category chosen, apply_filters returns exactly the rows that
\* pass the date-range, event-type and brand filters; no row is left out for
\* its category_code, a missing one included.
C6_EmptyCategorySelection ==
    (pc = "filtered" /\ widgets.chosen_cats = {}) =>
        filtered =
          Filter(df, {i \in DOMAIN df :
                        /\ df[i].event_date >= widgets.date_range[1]
                        /\ df[i].event_date <= widgets.date_range[2]
                        /\ widgets.selected # {} => df[i].event_type \in widgets.selected
                        /\ widgets.chosen_brands # {} => df[i].brand \in widgets.chosen_brands})

C6_Witness ==
    /\ pc = "filtered"
    /\ widgets.chosen_cats = {}
    /\ widgets.chosen_brands # {}
    /\ Len(filtered) < Len(df)
    /\ \E i \in DOMAIN filtered : filtered[i].category_code = NA

\* C7: the tables are not changed by the calls made on them: apply_filters
\* leaves the loaded table as it was, and the analytics calls of the four
\* tabs leave the loaded table, filtered and filtered_heavy as they were.
C7_TablesNotMutated ==
    [][ /\ pc \in {"loaded", "filtered", "overview", "funnel", "categories", "products"}
          => df' = df /\ cache' = cache
        /\ pc \in {"filtered", "overview", "funnel", "categories", "products"}
          => filtered' = filtered
        /\ pc \in {"overview", "funnel", "categories", "products"}
          => filtered_heavy' = filtered_heavy ]_vars

C7_Witness ==
    /\ pc = "done"
    /\ Called("funnel_by_price_bucket")
    /\ Called("time_to_purchase_distribution")
    /\ df = cache[1]
    /\ filtered = apply_filters(df, widgets)
    /\ \E i \in DOMAIN filtered : filtered[i].price = NaN

\* C8: when load_data is called and the data file does not exist, it raises
\* before reading anything, and the run reports the load error and stops:
\* nothing is read, apply_filters is not called and nothing else is computed
\* or shown until the next run starts.
C8_MissingFileStopsRun ==
    [][ /\ (pc = "start" /\ cache = <<>> /\ ~file_exists) =>
              /\ pc' = "stopped"
              /\ reads' = reads
              /\ page' = << <<"st.error", "Error loading data: CSV file not found">> >>
              /\ trace' = <<Call("get_data", ""), Call("load_data", ""),
                            Call("st.error", ""), Call("st.stop", "")>>
        /\ (pc = "stopped" /\ LastShown("st.error")) =>
              /\ pc' \in {"stopped", "start"}
              /\ pc' = "stopped" => (trace' = trace /\ page' = page /\ reads' = reads) ]_vars

C8_Witness ==
    /\ pc = "stopped"
    /\ LastShown("st.error")
    /\ ~file_exists
    /\ reads = 0
    /\ ~Called("apply_filters")
    /\ Len(csv) > 0

\* C9: in every run the calls come in the order load, filter, aggregate,
\* render, and a run whose filtered table is empty shows the "No data"
\* warning and stops: no analytics function is called on an empty filtered
\* table.
C9_RunOrder ==
    /\ \A i \in DOMAIN trace :
          /\ trace[i][1] = "apply_filters" =>
                /\ \E j \in 1..(i - 1) : trace[j][1] = "get_data"
                /\ \A j \in 1..(i - 1) : trace[j][1] \notin Aggregations \cup Renders
          /\ trace[i][1] \in Aggregations =>
                /\ \E j \in 1..(i - 1) : trace[j][1] = "apply_filters"
                /\ Len(filtered) > 0
          /\ trace[i][1] \in Renders =>
                i > 1 /\ trace[i - 1][1] \in Aggregations
    /\ (Called("apply_filters") /\ Len(filtered) = 0 /\ pc \notin {"filtered", "crashed"}) =>
          /\ pc = "stopped"
          /\ LastShown("st.warning")
          /\ trace[Len(trace)] = Call("st.stop", "")

C9_Witness ==
    /\ pc = "stopped"
    /\ LastShown("st.warning")
    /\ Len(df) = 2
    /\ Len(filtered) = 0
    /\ trace = <<Call("get_data", ""), Call("apply_filters", "df"),
                 Call("st.warning", ""), Call("st.stop", "")>>

----------------------------------------------------------------------------
(* load_data and the row cap *)

\* t is made of different lines of the file: each row of t is the loaded form
\* of a line of its own
RowsOfFile(t, file) ==
    \E f \in [DOMAIN t -> DOMAIN file] :
        /\ \A i, j \in DOMAIN t : i # j => f[i] # f[j]
        /\ \A i \in DOMAIN t : t[i] = derive_columns(file)[f[i]]

\* C11: the table load_data returns (the one get_data keeps) has at most
\* TARGET_ROWS rows.  A file of at most TARGET_ROWS lines is returned whole;
\* of a longer file exactly TARGET_ROWS different lines are returned, ordered
\* by event_time.  Every returned row is a line of the file.
C11_LoadDataCap ==
    cache # <<>> =>
        LET t == cache[1]
            n == limits.target_rows
        IN /\ Len(t) <= n
           /\ Len(csv) <= n => t = derive_columns(csv)
           /\ Len(csv) > n =>
                 /\ Len(t) = n
                 /\ \A i \in 1..(Len(t) - 1) : t[i].event_time <= t[i + 1].event_time
           /\ RowsOfFile(t, csv)

\* a file longer than the cap, whose first line is later than its second, has
\* been loaded: the table has TARGET_ROWS rows at different times
C11_Witness ==
    /\ cache # <<>>
    /\ Len(csv) > limits.target_rows
    /\ csv[1].event_time > csv[2].event_time
    /\ Len(cache[1]) = limits.target_rows
    /\ cache[1][1].event_time < cache[1][2].event_time

----------------------------------------------------------------------------
(* The Overview cards *)

\* the value the page shows under a label
Shown(label) == page[CHOOSE i \in DOMAIN page : page[i][1] = label][2]

\* the sessions of a table that hold a purchase event
PurchaseSessions(t) ==
    {t[i].user_session : i \in {j \in DOMAIN t : t[j].event_type = "purchase"}} \ {NA}

\* C12: once the Overview tab is rendered, the card labelled
\* "Orders (sessions w/ purchase)" shows the number of distinct sessions of the
\* filtered table that hold at least one purchase event.
C12_OrdersCard ==
    pc = "funnel" =>
        Shown("Orders (sessions w/ purchase)") = Cardinality(PurchaseSessions(filtered))

----------------------------------------------------------------------------
(* Fast mode *)

\* fast mode is on and the filtered table is over the limit
Sampling == widgets.fast_mode /\ Len(filtered) > limits.max_rows_detailed

\* the table a function named fn was given in this run
ArgOf(fn) == trace[CHOOSE i \in DOMAIN trace : trace[i][1] = fn][2]

----------------------------------------------------------------------------
(* The cached table *)

\* C14: once get_data has succeeded (the cache holds the table), no step of
\* any later run executes load_data or reads the file again, the cached table
\* never changes, and a run that calls get_data gets the cached table, which
\* is the table apply_filters starts from whatever the filters of the runs.
C14_LoadedOnce ==
    [][cache # <<>> =>
          /\ cache' = cache
          /\ reads' = reads
          /\ pc = "start" =>
                /\ pc' = "loaded"
                /\ df' = cache[1]
                /\ \A i \in DOMAIN trace' : trace'[i][1] # "load_data"
          /\ pc' = "filtered" =>
                /\ df = cache[1]
                /\ filtered' \in {apply_filters(cache[1], w) : w \in WidgetInputs(cache[1])}]_vars

\* a later run, started after the file was deleted, has filtered the cached
\* table by category
C14_Witness ==
    /\ ~file_exists
    /\ cache # <<>>
    /\ reads = 1
    /\ pc = "filtered"
    /\ widgets.chosen_cats # {}
    /\ df = cache[1]
    /\ Len(filtered) < Len(df)

----------------------------------------------------------------------------
(* preprocess_sample.py: the sampling loop *)

RECURSIVE Total(_)
Total(s) == IF s = <<>> THEN 0 ELSE Head(s) + Total(Tail(s))

\* the rows the passes logged so far have taken
Taken == [k \in DOMAIN prep.log |-> IF prep.log[k].sampled THEN prep.log[k].n_take ELSE 0]

\* C15: in the loop of preprocess_sample.main and after it, total_collected
\* is the sum of the rows taken so far and is at most TARGET_ROWS; the pass
\* over a chunk takes exactly min(TARGET_ROWS - total_collected,
\* floor(0.10 * len(chunk))) rows; a chunk for which that is 0 is skipped and
\* the loop goes on with the next chunk; no chunk is sampled once
\* total_collected has reached TARGET_ROWS.
C15_SampleLoop ==
    prep.pc \in {"loop", "after_loop", "done"} =>
        /\ prep.total_collected = Total(prep.samples)
        /\ prep.total_collected = Total(Taken)
        /\ prep.total_collected <= PREPROCESS_TARGET_ROWS
        /\ \A k \in DOMAIN prep.log :
              LET pass == prep.log[k]
                  due == IF PREPROCESS_TARGET_ROWS - pass.total <= pass.len \div 10
                         THEN PREPROCESS_TARGET_ROWS - pass.total
                         ELSE pass.len \div 10
              IN /\ pass.i = k
                 /\ pass.total = Total(SubSeq(Taken, 1, k - 1))
                 /\ pass.total < PREPROCESS_TARGET_ROWS
                 /\ pass.n_take = due
                 /\ pass.sampled <=> due > 0
        /\ prep.pc = "loop" => Len(prep.log) = prep.i
        /\ prep.pc # "loop" =>
              \/ prep.i = n_chunks(prep.raw_rows, CHUNKSIZE)
              \/ prep.total_collected >= PREPROCESS_TARGET_ROWS

\* the loop was left by break with the target reached and a chunk unsampled
C15_Witness ==
    /\ prep.pc = "after_loop"
    /\ prep.total_collected = PREPROCESS_TARGET_ROWS
    /\ Len(prep.samples) < prep.i
    /\ prep.i <= n_chunks(prep.raw_rows, CHUNKSIZE)
    /\ \A k \in DOMAIN prep.log : prep.log[k].sampled

----------------------------------------------------------------------------
(* shrink_sample.py *)

\* C16: shrink_sample.main raises FileNotFoundError when the source file is
\* missing; when the source is at most 99 MB it returns without reading a
\* chunk and leaves the output file as it was: not created, not modified.
C16_NothingToDo ==
    shrink.pc \notin {"idle", "start"} =>
        /\ ~shrink.src_exists =>
              /\ shrink.pc = "raised"
              /\ shrink.i = 0
              /\ shrink.out = shrink.old
        /\ (shrink.src_exists /\ shrink.st_size <= 99 * MB) =>
              /\ shrink.pc = "returned"
              /\ shrink.i = 0
              /\ shrink.rows_kept = 0
              /\ shrink.out = shrink.old

\* main has returned for a source of exactly 99 MB, no output file in place
C16_Witness ==
    /\ shrink.pc = "returned"
    /\ shrink.src_exists
    /\ shrink.st_size = 99 * MB
    /\ ~shrink.old.exists
    /\ ~shrink.out.exists

\* the lines of a file content: headers and rows of data
Headers(content) == {k \in DOMAIN content : content[k].kind = "header"}
RowCounts(content) ==
    [k \in DOMAIN content |-> IF content[k].kind = "rows" THEN content[k].rows ELSE 0]

\* C17: for a source of n >= 1 chunks, when the loop of shrink_sample.main is
\* over the output file holds one header line, the first, followed by the
\* sampled rows of chunks 1..n in chunk order; what the file held before is
\* gone; rows_kept is the number of data rows written.
C17_OneHeaderThenChunks ==
    shrink.pc = "done" =>
        LET content == shrink.out.content
            n == n_chunks(shrink.src_rows, CHUNK_SIZE)
        IN /\ shrink.out.exists
           /\ Len(content) = n + 1
           /\ Headers(content) = {1}
           /\ \A k \in 1..n : content[k + 1].kind = "rows" /\ content[k + 1].chunk = k
           /\ shrink.rows_kept = Total(RowCounts(content))

\* two chunks or more were written over an older output file
C17_Witness ==
    /\ shrink.pc = "done"
    /\ shrink.old = OldFile
    /\ shrink.i >= 2
    /\ shrink.rows_kept > 0
    /\ shrink.out.content[1] = HeaderLine

----------------------------------------------------------------------------
(* apply_filters: the rows kept *)

\* C18: the table apply_filters returns is made of exactly the rows of its
\* input, in their order, that pass every active filter: event_date in
\* [start_date, end_date], event_type among the selected types when any is
\* selected, category_code among the chosen categories when any is chosen,
\* brand among the chosen brands when any is chosen.  It is a subset of the
\* input, and with a category (a brand) chosen no row with a missing
\* category_code (brand) is in it.
C18_FiltersConjunction ==
    pc = "filtered" =>
        LET w == widgets
            passes(r) ==
                /\ w.date_range[1] <= r.event_date
                /\ r.event_date <= w.date_range[2]
                /\ w.selected # {} => r.event_type \in w.selected
                /\ w.chosen_cats # {} => r.category_code \in w.chosen_cats
                /\ w.chosen_brands # {} => r.brand \in w.chosen_brands
        IN /\ filtered = Filter(df, {i \in DOMAIN df : passes(df[i])})
           /\ Range(filtered) \subseteq Range(df)
           /\ Len(filtered) <= Len(df)
           /\ w.chosen_cats # {} => \A i \in DOMAIN filtered : filtered[i].category_code # NA
           /\ w.chosen_brands # {} => \A i \in DOMAIN filtered : filtered[i].brand # NA

\* event types and a category are chosen, and a row inside the date range with
\* a selected event type and no category_code has been left out
C18_Witness ==
    /\ pc = "filtered"
    /\ widgets.selected # {}
    /\ widgets.chosen_cats # {}
    /\ Len(filtered) > 0
    /\ \E i \in DOMAIN df :
          /\ df[i].category_code = NA
          /\ df[i].event_type \in widgets.selected
          /\ widgets.date_range[1] <= df[i].event_date
          /\ df[i].event_date <= widgets.date_range[2]
          /\ df[i] \notin Range(filtered)

====
